---- MODULE Spec2Model ----
(***************************************************************************)
(* Model of server.js: the JSON record store (db), the multer disk storage *)
(* and file filter, and the upload, list and delete request handlers.      *)
(*                                                                         *)
(* Node runs every handler to completion on one thread and the store is    *)
(* read and written with the synchronous fs calls, so a handler body is    *)
(* one step.  What is asynchronous is multer's parsing of an upload: the   *)
(* files of a request are filtered and written one by one, and other       *)
(* requests run in between.  The DELETE handler is split at its two file   *)
(* system effects (store write, blob unlink) so that their order shows;    *)
(* no other handler runs between the two, only the environment does.       *)
(*                                                                         *)
(* File names and route parameters are sequences of one-character strings, *)
(* so that extname, toLowerCase, the sanitising replace and parseInt are   *)
(* computed as the code computes them.  A Date is the integer clock; the   *)
(* ISO text of a Date has a fixed width, so `${timestamp}_${safeName}` is  *)
(* the pair of the clock and the sanitised name.  The record fields size,  *)
(* hash, notes and path are left out: no control flow reads them (path is  *)
(* the upload directory joined with filename).                             *)
(***************************************************************************)
EXTENDS Integers, Sequences, FiniteSets, TLC

\* ---------------------------------------------------------------- bounds
\* Ids are issued up to MaxId, a request carries up to MaxBatch files, the
\* clock reads 0..MaxClock.
MaxId == 3
MaxBatch == 2
MaxClock == 1

\* The upload requests that can be in flight at the same time.
Reqs == {"r1", "r2"}

\* The file names clients submit: "a b.PDF" and "a.exe".
Names ==
  { <<"a", " ", "b", ".", "P", "D", "F">>,
    <<"a", ".", "e", "x", "e">> }

DigitChars == <<"0", "1", "2", "3", "4", "5", "6", "7", "8", "9">>

\* The :id route parameters clients submit: the ids, "1x" and "x".
Params ==
  { <<DigitChars[i + 1]>> : i \in 1..MaxId } \cup { <<"1", "x">>, <<"x">> }

\* ------------------------------------------------------- string helpers
Range(s) == { s[i] : i \in 1..Len(s) }

UpperChars ==
  <<"A", "B", "C", "D", "E", "F", "G", "H", "I", "J", "K", "L", "M",
    "N", "O", "P", "Q", "R", "S", "T", "U", "V", "W", "X", "Y", "Z">>

LowerChars ==
  <<"a", "b", "c", "d", "e", "f", "g", "h", "i", "j", "k", "l", "m",
    "n", "o", "p", "q", "r", "s", "t", "u", "v", "w", "x", "y", "z">>

\* The lower-case letter of each upper-case letter.
lowerOf ==
  [ c \in Range(UpperChars) |->
      LowerChars[CHOOSE k \in 1..Len(UpperChars) : UpperChars[k] = c] ]

\* String.prototype.toLowerCase
toLowerCase(s) ==
  [ i \in 1..Len(s) |-> IF s[i] \in DOMAIN lowerOf THEN lowerOf[s[i]] ELSE s[i] ]

\* The position of the last c in s, 0 when there is none.
LastIndexOf(s, c) ==
  LET I == { i \in 1..Len(s) : s[i] = c }
  IN  IF I = {} THEN 0 ELSE CHOOSE i \in I : \A j \in I : j <= i

\* path.extname: from the last "." of the base name, "" when there is none
\* or the base name starts with its only ".".
extname(name) ==
  LET b == SubSeq(name, LastIndexOf(name, "/") + 1, Len(name))
      d == LastIndexOf(b, ".")
  IN  IF d <= 1 \/ b = <<".", ".">> THEN <<>> ELSE SubSeq(b, d, Len(b))

\* The decimal digits.
Digits == Range(DigitChars)

\* The characters /[^a-zA-Z0-9._-]/ does not match.
SafeChars ==
  Range(UpperChars) \cup Range(LowerChars) \cup Digits \cup {".", "_", "-"}

\* file.originalname.replace(/[^a-zA-Z0-9._-]/g, '_')
safeName(name) ==
  [ i \in 1..Len(name) |-> IF name[i] \in SafeChars THEN name[i] ELSE "_" ]

\* ALLOWED_EXTENSIONS
ALLOWED_EXTENSIONS ==
  ( <<".", "x", "l", "s", "x">> :> "spreadsheet" ) @@
  ( <<".", "x", "l", "s">> :> "spreadsheet" ) @@
  ( <<".", "c", "s", "v">> :> "spreadsheet" ) @@
  ( <<".", "o", "f", "x">> :> "ofx" ) @@
  ( <<".", "p", "d", "f">> :> "pdf" )

\* fileFilter: TRUE for cb(null, true), FALSE for cb(new Error(...), false).
fileFilter(name) == toLowerCase(extname(name)) \in DOMAIN ALLOWED_EXTENSIONS

\* ALLOWED_EXTENSIONS[ext] || 'unknown'
typeOf(name) ==
  LET ext == toLowerCase(extname(name))
  IN  IF ext \in DOMAIN ALLOWED_EXTENSIONS THEN ALLOWED_EXTENSIONS[ext]
      ELSE "unknown"

\* storage.filename: `${timestamp}_${safeName}`
storedName(now, name) == [ts |-> now, name |-> safeName(name)]

RECURSIVE DigitsValue(_)
DigitsValue(s) ==
  IF s = <<>> THEN 0
  ELSE 10 * DigitsValue(SubSeq(s, 1, Len(s) - 1))
         + ((CHOOSE k \in 1..10 : DigitChars[k] = s[Len(s)]) - 1)

\* parseInt on an unsigned decimal text: the value of the leading digits,
\* NaN when the text starts with none.
parseInt(p) ==
  LET k == CHOOSE n \in 0..Len(p) :
             /\ \A i \in 1..n : p[i] \in Digits
             /\ (n < Len(p) => p[n + 1] \notin Digits)
  IN  IF k = 0 THEN [isNaN |-> TRUE, value |-> 0]
      ELSE [isNaN |-> FALSE, value |-> DigitsValue(SubSeq(p, 1, k))]

\* ------------------------------------------------------------- the state
VARIABLES
  doc,         \* data/files.json: [ok, files, nextId]; ok is FALSE when the
               \* text does not parse
  blobs,       \* the stored names present in the upload directory
  clock,       \* the wall clock, in milliseconds
  req,         \* per upload request: multer's progress through its files
  del,         \* the DELETE handler's position between its two effects
  resp,        \* the response the last step wrote, NoResp once it has gone
               \* out or when the step wrote none
  lastIssued   \* history: the largest id any response has reported uploaded

vars == <<doc, blobs, clock, req, del, resp, lastIssued>>

NoFile ==
  [id |-> 0, filename |-> [ts |-> 0, name |-> <<>>], originalName |-> <<>>,
   type |-> "", uploadDate |-> 0, status |-> ""]

NoResp ==
  [kind |-> "none", status |-> 0, success |-> FALSE, batch |-> <<>>,
   uploaded |-> <<>>, errors |-> <<>>, files |-> <<>>]

IdleReq == [phase |-> "idle", files |-> <<>>]

IdleDel == [phase |-> "idle", param |-> <<>>, file |-> NoFile]

\* ------------------------------------------------------------ db helpers
\* db.read: the parsed document, or the empty one when it does not parse.
read(d) ==
  IF d.ok THEN [files |-> d.files, nextId |-> d.nextId]
  ELSE [files |-> <<>>, nextId |-> 1]

\* db.write: the whole document replaces the file's text.
write(data) == [ok |-> TRUE, files |-> data.files, nextId |-> data.nextId]

\* Mutant: the id is taken from the number of records.
addFile_idFromLength(d, fileInfo, now) ==
  LET data == read(d)
      file == [id |-> Len(data.files) + 1,
               filename |-> fileInfo.filename,
               originalName |-> fileInfo.originalName,
               type |-> fileInfo.type,
               uploadDate |-> now,
               status |-> "uploaded"]
  IN  [doc |-> write([files |-> Append(data.files, file),
                      nextId |-> data.nextId + 1]),
       file |-> file]

\* Mutant: the document written holds the new record alone.
addFile_overwrite(d, fileInfo, now) ==
  LET data == read(d)
      file == [id |-> data.nextId,
               filename |-> fileInfo.filename,
               originalName |-> fileInfo.originalName,
               type |-> fileInfo.type,
               uploadDate |-> now,
               status |-> "uploaded"]
  IN  [doc |-> write([files |-> <<file>>, nextId |-> data.nextId + 1]),
       file |-> file]

\* db.addFile: the document after the append, and the record returned.
addFile(d, fileInfo, now) ==
  LET data == read(d)
      file == [id |-> data.nextId,
               filename |-> fileInfo.filename,
               originalName |-> fileInfo.originalName,
               type |-> fileInfo.type,
               uploadDate |-> now,
               status |-> "uploaded"]
  IN  [doc |-> write([files |-> Append(data.files, file),
                      nextId |-> data.nextId + 1]),
       file |-> file]

\* Mutant: ascending, new Date(a.uploadDate) - new Date(b.uploadDate).
compareDates_ascending(a, b) == a.uploadDate - b.uploadDate

\* The comparator of db.getFiles.
compareDates(a, b) == b.uploadDate - a.uploadDate

\* x placed in the sorted s behind every element that does not sort after it.
RECURSIVE InsertSorted(_, _)
InsertSorted(x, s) ==
  IF s = <<>> THEN <<x>>
  ELSE IF compareDates(Head(s), x) <= 0
       THEN <<Head(s)>> \o InsertSorted(x, Tail(s))
       ELSE <<x>> \o s

\* Array.prototype.sort, which is stable.
RECURSIVE sort(_)
sort(s) ==
  IF s = <<>> THEN <<>>
  ELSE InsertSorted(s[Len(s)], sort(SubSeq(s, 1, Len(s) - 1)))

\* db.getFiles
getFiles(d) == sort(read(d).files)

\* files.findIndex(f => f.id === parseInt(id)): the position of the first
\* record whose id is the parameter's number, 0 for none (NaN equals no id).
findIndex(files, p) ==
  LET n == parseInt(p)
      I == { i \in 1..Len(files) : ~n.isNaN /\ files[i].id = n.value }
  IN  IF I = {} THEN 0 ELSE CHOOSE i \in I : \A j \in I : i <= j

\* db.getFileById
getFileById(d, p) ==
  LET files == read(d).files
      i == findIndex(files, p)
  IN  IF i = 0 THEN [found |-> FALSE, file |-> NoFile]
      ELSE [found |-> TRUE, file |-> files[i]]

\* Mutant: the record is spliced out but the document is not written.
deleteFile_noWrite(d, p) ==
  LET data == read(d)
      i == findIndex(data.files, p)
  IN  IF i = 0 THEN [doc |-> d, found |-> FALSE, file |-> NoFile]
      ELSE [doc |-> d, found |-> TRUE, file |-> data.files[i]]

\* db.deleteFile: the document after the call, and the record returned.
deleteFile(d, p) ==
  LET data == read(d)
      i == findIndex(data.files, p)
  IN  IF i = 0 THEN [doc |-> d, found |-> FALSE, file |-> NoFile]
      ELSE [doc |-> write([files |-> SubSeq(data.files, 1, i - 1)
                                       \o SubSeq(data.files, i + 1,
                                                 Len(data.files)),
                           nextId |-> data.nextId]),
            found |-> TRUE,
            file |-> data.files[i]]

\* Mutant: the blob is not read before the record is built.
getFileHash_noRead(fn, bl) == TRUE

\* getFileHash: fs.readFileSync succeeds when the blob is there and throws
\* otherwise.
getFileHash(fn, bl) == fn \in bl

\* ------------------------------------------------------------------ Init
\* The state after the module has loaded: files.json holds
\* { files: [], nextId: 1 } and the upload directory is empty.
Init ==
  /\ doc = [ok |-> TRUE, files |-> <<>>, nextId |-> 1]
  /\ blobs = {}
  /\ clock = 0
  /\ req = [r \in Reqs |-> IdleReq]
  /\ del = IdleDel
  /\ resp = NoResp
  /\ lastIssued = 0

\* The files the requests in flight have stored so far.
RECURSIVE PendingFiles(_)
PendingFiles(S) ==
  IF S = {} THEN 0
  ELSE LET r == CHOOSE x \in S : TRUE
       IN  Len(req[r].files) + PendingFiles(S \ {r})

\* The answer of the last step has gone out; a step starts after that.
Sent == resp = NoResp

\* No handler is in the middle of its body.
JsIdle == Sent /\ del.phase = "idle"

\* The original names of the files multer has stored for a request.
originalNames(files) == [ i \in 1..Len(files) |-> files[i].originalname ]

\* ------------------------------------------------- POST /api/upload: multer
\* A multipart request arrives and upload.array('files', 20) starts on its
\* body, whose parts follow one by one.
StartUpload(r) ==
  /\ JsIdle
  /\ req[r].phase = "idle"
  /\ req' = [req EXCEPT ![r] = [phase |-> "multer", files |-> <<>>]]
  /\ resp' = NoResp
  /\ UNCHANGED <<doc, blobs, clock, del, lastIssued>>

\* The next file of the request passes fileFilter; storage names it from the
\* clock and its sanitised name and writes it into the upload directory.
\* (The guards on the counts keep the batch within MaxBatch and the id
\* counter within MaxId.)
MulterStoreFile(r, name) ==
  /\ JsIdle
  /\ req[r].phase = "multer"
  /\ Len(req[r].files) < MaxBatch
  /\ read(doc).nextId + PendingFiles(Reqs) <= MaxId
  /\ fileFilter(name)
  /\ blobs' = blobs \cup {storedName(clock, name)}
  /\ req' = [req EXCEPT
               ![r].files = Append(@, [originalname |-> name,
                                       filename |-> storedName(clock, name)])]
  /\ resp' = NoResp
  /\ UNCHANGED <<doc, clock, del, lastIssued>>

\* The Express error middleware: any error but LIMIT_FILE_SIZE answers 500.
errorMiddleware(batch) ==
  [NoResp EXCEPT !.kind = "upload", !.status = 500, !.success = FALSE,
                 !.batch = batch]

\* The next file of the request fails fileFilter, which hands multer an
\* Error: multer unlinks the files this request has stored and passes the
\* error on; the route handler never runs.
MulterAbort(r, name) ==
  /\ JsIdle
  /\ req[r].phase = "multer"
  /\ Len(req[r].files) < MaxBatch
  /\ ~fileFilter(name)
  /\ blobs' = blobs \ { f.filename : f \in Range(req[r].files) }
  /\ resp' = errorMiddleware(Append(originalNames(req[r].files), name))
  /\ req' = [req EXCEPT ![r] = IdleReq]
  /\ UNCHANGED <<doc, clock, del, lastIssued>>

\* ------------------------------------------- POST /api/upload: the handler
\* The readings of new Date() by the appends of one handler run: they start
\* at the clock and do not go back.
Stamps(n) ==
  { ts \in [1..n -> clock..MaxClock] :
      \A i \in 1..(n - 1) : ts[i] <= ts[i + 1] }

\* The body of req.files.forEach for one file: hash the blob and append the
\* record, or collect the error thrown.
uploadOne(acc, file, now, bl) ==
  IF getFileHash(file.filename, bl)
  THEN LET saved == addFile(acc.doc,
                            [filename |-> file.filename,
                             originalName |-> file.originalname,
                             type |-> typeOf(file.originalname)],
                            now)
       IN  [doc |-> saved.doc,
            uploaded |-> Append(acc.uploaded, saved.file),
            errors |-> acc.errors]
  ELSE [acc EXCEPT !.errors = Append(@, [filename |-> file.originalname,
                                         error |-> "ENOENT"])]

\* req.files.forEach over the files in order, from the store d.
forEachFile(files, ts, bl, d) ==
  LET run[i \in 0..Len(files)] ==
        IF i = 0 THEN [doc |-> d, uploaded |-> <<>>, errors |-> <<>>]
        ELSE uploadOne(run[i - 1], files[i], ts[i], bl)
  IN  run[Len(files)]

\* The largest id of the records, or m when that is larger.
MaxIdOf(recs, m) ==
  LET S == { recs[i].id : i \in 1..Len(recs) } \cup {m}
  IN  CHOOSE x \in S : \A y \in S : y <= x

\* The body ends and the request carried no file: 400.
UploadNoFiles(r) ==
  /\ JsIdle
  /\ req[r].phase = "multer"
  /\ Len(req[r].files) = 0
  /\ resp' = [NoResp EXCEPT !.kind = "upload", !.status = 400,
                            !.success = FALSE]
  /\ req' = [req EXCEPT ![r] = IdleReq]
  /\ UNCHANGED <<doc, blobs, clock, del, lastIssued>>

\* The body ends, multer has stored every file of the request, and the route
\* handler runs.
UploadHandler(r) ==
  /\ JsIdle
  /\ req[r].phase = "multer"
  /\ Len(req[r].files) > 0
  /\ \E ts \in Stamps(Len(req[r].files)) :
       \E out \in {forEachFile(req[r].files, ts, blobs, doc)} :
         /\ doc' = out.doc
         /\ clock' = ts[Len(req[r].files)]
         /\ resp' = [NoResp EXCEPT !.kind = "upload", !.status = 200,
                                   !.success = (Len(out.uploaded) > 0),
                                   !.batch = originalNames(req[r].files),
                                   !.uploaded = out.uploaded,
                                   !.errors = out.errors]
         /\ lastIssued' = MaxIdOf(out.uploaded, lastIssued)
  /\ req' = [req EXCEPT ![r] = IdleReq]
  /\ UNCHANGED <<blobs, del>>

\* ------------------------------------------------- DELETE /api/files/:id
\* db.deleteFile finds no record: 404.
DeleteNotFound(p) ==
  /\ JsIdle
  /\ LET out == deleteFile(doc, p)
     IN  /\ ~out.found
         /\ doc' = out.doc
  /\ resp' = [NoResp EXCEPT !.kind = "delete", !.status = 404,
                            !.success = FALSE]
  /\ UNCHANGED <<blobs, clock, req, del, lastIssued>>

\* Mutant: the blob is unlinked first and the store is left for later.
DeleteStore_unlinkFirst(p) ==
  /\ JsIdle
  /\ LET out == deleteFile(doc, p)
     IN  /\ out.found
         /\ blobs' = blobs \ {out.file.filename}
         /\ del' = [phase |-> "unlink", param |-> p, file |-> out.file]
  /\ resp' = NoResp
  /\ UNCHANGED <<doc, clock, req, lastIssued>>

\* db.deleteFile removes the record and writes the store; the handler goes
\* on to the blob.
DeleteStore(p) ==
  /\ JsIdle
  /\ LET out == deleteFile(doc, p)
     IN  /\ out.found
         /\ doc' = out.doc
         /\ del' = [phase |-> "unlink", param |-> p, file |-> out.file]
  /\ resp' = NoResp
  /\ UNCHANGED <<blobs, clock, req, lastIssued>>

\* if (fs.existsSync(filePath)) fs.unlinkSync(filePath), and the answer.
DeleteBlob ==
  /\ Sent
  /\ del.phase = "unlink"
  /\ blobs' = blobs \ {del.file.filename}
  /\ resp' = [NoResp EXCEPT !.kind = "delete", !.status = 200,
                            !.success = TRUE]
  /\ del' = IdleDel
  /\ UNCHANGED <<doc, clock, req, lastIssued>>

\* --------------------------------------------------------- GET /api/files
ListHandler ==
  /\ JsIdle
  /\ resp' = [NoResp EXCEPT !.kind = "list", !.status = 200,
                            !.success = TRUE, !.files = getFiles(doc)]
  /\ UNCHANGED <<doc, blobs, clock, req, del, lastIssued>>

\* ------------------------------------------------------------- res.json
\* The answer written by the last step goes out.
SendResponse ==
  /\ ~Sent
  /\ resp' = NoResp
  /\ UNCHANGED <<doc, blobs, clock, req, del, lastIssued>>

\* -------------------------------------------------------- the environment
\* A millisecond passes.
Tick ==
  /\ Sent
  /\ clock < MaxClock
  /\ clock' = clock + 1
  /\ resp' = NoResp
  /\ UNCHANGED <<doc, blobs, req, del, lastIssued>>

\* files.json is damaged from outside: its text no longer parses.
CorruptStore ==
  /\ Sent
  /\ doc.ok
  /\ doc' = [ok |-> FALSE, files |-> <<>>, nextId |-> 0]
  /\ resp' = NoResp
  /\ UNCHANGED <<blobs, clock, req, del, lastIssued>>

\* A blob is removed from the upload directory by hand.
ManualRemoveBlob(fn) ==
  /\ Sent
  /\ fn \in blobs
  /\ blobs' = blobs \ {fn}
  /\ resp' = NoResp
  /\ UNCHANGED <<doc, clock, req, del, lastIssued>>

\* ------------------------------------------------------ the specifications
\* The requests of the API, and time.
ApiNext ==
  \/ \E r \in Reqs : StartUpload(r)
  \/ \E r \in Reqs, name \in Names : MulterStoreFile(r, name)
  \/ \E r \in Reqs, name \in Names : MulterAbort(r, name)
  \/ \E r \in Reqs : UploadNoFiles(r)
  \/ \E r \in Reqs : UploadHandler(r)
  \/ \E p \in Params : DeleteNotFound(p)
  \/ \E p \in Params : DeleteStore(p)
  \/ DeleteBlob
  \/ ListHandler
  \/ SendResponse
  \/ Tick

\* Changes made to the store file and the upload directory from outside.
EnvNext ==
  \/ CorruptStore
  \/ \E fn \in blobs : ManualRemoveBlob(fn)

Next == ApiNext \/ EnvNext

\* The server with outside changes to its files.
Spec == Init /\ [][Next]_vars

\* The server alone: nothing but its requests touches the store file and the
\* upload directory.
SpecApi == Init /\ [][ApiNext]_vars

\* ------------------------------------------------------------- properties
\* The step sent the route handler's answer to an upload.
UploadAnswered == resp'.kind = "upload" /\ resp'.status = 200

\* The ids of recs are above last and strictly increasing.
IdsFresh(recs, last) ==
  \A i \in 1..Len(recs) :
    /\ recs[i].id > last
    /\ \A j \in 1..(i - 1) : recs[j].id < recs[i].id

\* C1: on a readable store, over any appends and removes, the ids the
\* appends return are strictly increasing and distinct, and none is an id
\* issued before, deleted or not.
C1_IdsStrictlyIncreasing ==
  [][ UploadAnswered => IdsFresh(resp'.uploaded, lastIssued) ]_vars

\* C1 witness: an append has just returned ids while an id issued earlier is
\* gone from the store.
C1_AppendAfterRemove ==
  /\ resp.kind = "upload"
  /\ Len(resp.uploaded) > 0
  /\ \E i \in 1..lastIssued : \A f \in Range(read(doc).files) : f.id # i

\* C2: over the store's lifetime, a load that falls back to the empty state
\* included, no id is issued twice and the persisted counter stays above
\* every id issued.
C2_IdsUniqueForLifetime ==
  [][ /\ UploadAnswered => IdsFresh(resp'.uploaded, lastIssued)
      /\ doc'.ok => doc'.nextId > lastIssued ]_vars

\* The files of a batch that fileFilter accepts.
AllowedIn(batch) == { i \in 1..Len(batch) : fileFilter(batch[i]) }

\* C3: an upload of a batch with an allowed and a disallowed file commits one
\* record per allowed file, reports one failure per disallowed file and
\* answers success:true.
C3_PartialBatchSucceeds ==
  ( /\ resp.kind = "upload"
    /\ AllowedIn(resp.batch) # {}
    /\ AllowedIn(resp.batch) # 1..Len(resp.batch) )
  => /\ resp.success
     /\ Len(resp.uploaded) = Cardinality(AllowedIn(resp.batch))
     /\ Len(resp.errors) = Len(resp.batch) - Cardinality(AllowedIn(resp.batch))
     /\ Range(resp.uploaded) \subseteq Range(read(doc).files)

\* C4: when a record is appended to the store, the blob its filename names
\* is on disk: it was written before the append and is there after it.
C4_BlobBeforeRecord ==
  [][ UploadAnswered =>
        \A i \in 1..Len(resp'.uploaded) :
          /\ resp'.uploaded[i] \in Range(read(doc').files)
          /\ resp'.uploaded[i].filename \in blobs
          /\ resp'.uploaded[i].filename \in blobs' ]_vars

\* C4 witness: one handler run appended a record for a file whose blob was
\* there and reported an error for a file whose blob was gone.
C4_SomeBlobMissing ==
  /\ resp.kind = "upload"
  /\ Len(resp.uploaded) > 0
  /\ Len(resp.errors) > 0

\* C5: DELETE of a present id removes the record from the store in a step
\* that leaves the blob alone; the blob is unlinked afterwards, with the
\* record already gone, and the answer is success whether the blob was there
\* or not.
C5_RecordRemovedBeforeBlob ==
  [][ /\ (del.phase = "idle" /\ del'.phase = "unlink") =>
            /\ blobs' = blobs
            /\ ~getFileById(doc', del'.param).found
      /\ (del.phase = "unlink" /\ del'.phase = "idle") =>
            /\ ~getFileById(doc, del.param).found
            /\ ~getFileById(doc', del.param).found
            /\ del.file.filename \notin blobs'
            /\ resp'.kind = "delete"
            /\ resp'.status = 200
            /\ resp'.success ]_vars

\* C5 witness: the record is out of the store, the handler is about to
\* unlink the blob, and the blob is already absent.
C5_BlobAlreadyAbsent ==
  /\ del.phase = "unlink"
  /\ del.file.filename \notin blobs

\* C6: in every store state and for every id, deleteFile followed by
\* getFileById yields absent.
C6_RemoveThenFindAbsent ==
  \A p \in Params :
    \A out \in {deleteFile(doc, p)} : ~getFileById(out.doc, p).found

\* C6 witness: deleteFile finds a record in a store that holds others too.
C6_RemoveAmongSeveral ==
  /\ Len(read(doc).files) >= 2
  /\ \E p \in Params : deleteFile(doc, p).found

\* A step loses an update: a record leaves the store without being the one
\* removed, a record answered as uploaded is not in the store written, a
\* record removed is still in it, or a record removed earlier is back.
StepLosesUpdate ==
  \/ \E f \in Range(read(doc).files) :
       /\ f \notin Range(read(doc').files)
       /\ ~(del.phase = "idle" /\ del'.phase = "unlink" /\ del'.file = f)
  \/ /\ UploadAnswered
     /\ \E f \in Range(resp'.uploaded) : f \notin Range(read(doc').files)
  \/ /\ del.phase = "idle"
     /\ del'.phase = "unlink"
     /\ del'.file \in Range(read(doc').files)
  \/ \E f \in Range(read(doc').files) :
       f \notin Range(read(doc).files) /\ f.id <= lastIssued

\* C7 as amended: in the one server process every append and remove runs its
\* load and persist to completion, so overlapping requests lose no update.
C7_NoLostUpdate == [][ ~StepLosesUpdate ]_vars

\* C7 witness: a request has just had its records committed while another
\* request is in flight with a file stored, and the store holds an earlier
\* record.
C7_OverlappingWriters ==
  /\ resp.kind = "upload"
  /\ Len(resp.uploaded) > 0
  /\ Len(read(doc).files) >= 2
  /\ \E r \in Reqs : req[r].phase = "multer" /\ Len(req[r].files) > 0

\* C7 as claimed: where two write requests overlap, a step that loses an
\* update can be taken.
C7_OverlapLosesUpdate ==
  (\A r \in Reqs : req[r].phase = "multer" /\ Len(req[r].files) > 0)
  => ENABLED (ApiNext /\ StepLosesUpdate)

\* C8: no two records of the store have the same stored filename.
C8_StoredNamesUnique ==
  \A i, j \in 1..Len(read(doc).files) :
    i # j => read(doc).files[i].filename # read(doc).files[j].filename

\* The position of record f in s.
PositionIn(s, f) == CHOOSE k \in 1..Len(s) : s[k] = f

\* C9: getFiles answers exactly the stored records, by upload time
\* descending, records of equal upload time in their stored order, and
\* leaves the store as it is.
C9_ListSortedStable ==
  [][ resp'.kind = "list" =>
        LET out == resp'.files
            stored == read(doc).files
        IN  /\ doc' = doc
            /\ Len(out) = Len(stored)
            /\ Range(out) = Range(stored)
            /\ \A i, j \in 1..Len(out) :
                 i < j =>
                   /\ out[i].uploadDate >= out[j].uploadDate
                   /\ out[i].uploadDate = out[j].uploadDate =>
                        PositionIn(stored, out[i]) < PositionIn(stored, out[j])
    ]_vars

\* C9 witness: a listing that holds a tie and a pair of different upload
\* times, in another order than the store's.
C9_ListWithTie ==
  /\ resp.kind = "list"
  /\ resp.files # read(doc).files
  /\ \E i, j \in 1..Len(resp.files) :
       i < j /\ resp.files[i].uploadDate = resp.files[j].uploadDate
  /\ \E i, j \in 1..Len(resp.files) :
       resp.files[i].uploadDate # resp.files[j].uploadDate

\* C10: with nothing but the API touching the files, every record of the
\* store has its blob on disk.
C10_EveryRecordHasBlob ==
  \A f \in Range(read(doc).files) : f.filename \in blobs

====
